---- MODULE Spec2Model ----
(***************************************************************************)
(* Model of the CO2.js GitHub Action (src/src/index.ts): run() and the     *)
(* three functions it calls, calculateBytes, fetchCloudflareAnalytics and  *)
(* buildCarbonTxt.  The host (@actions/core), the filesystem, the glob     *)
(* library, the per-byte emissions model and the HTTP transport are the    *)
(* environment: their results are drawn nondeterministically from small    *)
(* sets.  Optional values (undefined / null) are sequences of length 0 or  *)
(* 1; text is TLA+ strings built by concatenation as the code builds it.   *)
(***************************************************************************)
EXTENDS Integers, Sequences, FiniteSets, TLC

VARIABLES
    pc,              \* position of run() / of the function it is awaiting
    inputs,          \* what core.getInput returns for each input name
    fsInput,         \* what lies at the input path on the filesystem
    destExists,      \* whether the destination directory exists
    cfg,             \* the values run() derives from the inputs
    bytes,           \* result of calculateBytes (optional)
    estimatedCO2,    \* result of emissions.perByte(bytes, greenHosting)
    emissionsOutput, \* value passed to core.setOutput("emissions", ...)
    range,           \* since / until resolved by the fetcher
    httpRequests,    \* number of fetch() calls issued
    upstream,        \* the JSON body the Cloudflare API answered with
    analytics,       \* result of fetchCloudflareAnalytics (null = <<>>)
    fetchReturned,   \* the fetcher has returned to run()
    warnings,        \* messages passed to core.warning, in order
    carbonTxt,       \* result of buildCarbonTxt (optional)
    reportFile,      \* what writeFileSync wrote (optional)
    dirCreated,      \* mkdirSync created the destination directory
    thrown,          \* the value caught by run()'s catch (optional)
    failures,        \* messages passed to core.setFailed, in order
    events           \* begin / end marks of the stages of run(), in order

vars == <<pc, inputs, fsInput, destExists, cfg, bytes, estimatedCO2,
          emissionsOutput, range, httpRequests, upstream, analytics,
          fetchReturned, warnings, carbonTxt, reportFile, dirCreated, thrown,
          failures, events>>

----------------------------------------------------------------------------
(* Bounds of the model and constants of the program *)

MaxEntries == 2
MaxGroups == 2
RowLimit == 100
SliceLen == 10

None == <<>>
Some(v) == <<v>>
IsSome(o) == Len(o) = 1
Get(o) == o[1]

Min(a, b) == IF a <= b THEN a ELSE b

BoundedSeq(S, n) == UNION {[1..k -> S] : k \in 0..n}

BoolStr(b) == IF b THEN "true" ELSE "false"

(* JS String.prototype.slice(0, n) *)
Slice0(s, n) == SubSeq(s, 1, Min(Len(s), n))

(* JS `a || b` on strings: the empty string is falsy *)
OrElse(a, b) == IF a = "" THEN b ELSE a

(* s contains sub as a substring *)
Contains(s, sub) ==
    \E i \in 1..(Len(s) - Len(sub) + 1) : SubSeq(s, i, i + Len(sub) - 1) = sub

----------------------------------------------------------------------------
(* Values a callee can throw: an Error with a message, or any other value *)

ErrorOf(m) == [isError |-> TRUE, message |-> m]
NonError == [isError |-> FALSE, message |-> ""]

FsThrown == {ErrorOf("EACCES: permission denied")}
LibThrown == {ErrorOf("library failure"), NonError}
TransportThrown == {ErrorOf("fetch failed"), NonError}

----------------------------------------------------------------------------
(* The environment: inputs, filesystem, clock, emissions model *)

Inputs ==
    [path : {"", "dist"},
     greenHosting : {"true", "false"},
     destination : {"", "out"},
     cloudflareEnabled : {"true", "false"},
     cloudflareApiToken : {"", "tok"},
     cloudflareZoneId : {"", "zone1"},
     cloudflareSince : {""},
     cloudflareUntil : {"2024-01-31T23:59:59Z"}]

Entry(p, t, s) == [path |-> p, type |-> t, size |-> s]

(* Entries a directory tree is made of; size is what statSync reports, *)
(* which for a symbolic link is the size of the file it points to.     *)
EntrySamples ==
    {Entry(<<"a.txt">>, "file", 100),
     Entry(<<"sub", "b.txt">>, "file", 250),
     Entry(<<".git", "config">>, "file", 7),
     Entry(<<"sub", "node_modules", "x.js">>, "file", 13),
     Entry(<<".htaccess">>, "file", 17),
     Entry(<<"link">>, "symlink", 19),
     Entry(<<"empty">>, "dir", 4096)}

Trees == {t \in SUBSET EntrySamples : Cardinality(t) <= MaxEntries}

FsNode(t, s, es) == [type |-> t, size |-> s, entries |-> es]

FsNodes ==
    {FsNode("absent", 0, {}), FsNode("file", 350, {}), FsNode("fifo", 0, {})}
        \cup {FsNode("dir", 4096, t) : t \in Trees}

NowIso == "2024-03-31T12:00:00.000Z"

(* new Date(now.getTime() - 30 days).toISOString() for the instant NowIso *)
ThirtyDaysBefore(iso) == "2024-03-01T12:00:00.000Z"

(* co2.perByte is an opaque function of the external model: a term *)
perByte(b, green) == [bytes |-> b, green |-> green]

NumStr(x) == "co2(" \o ToString(x.bytes) \o "," \o BoolStr(x.green) \o ")"

----------------------------------------------------------------------------
(* calculateBytes *)

RECURSIVE SumSizes(_)
SumSizes(S) ==
    IF S = {} THEN 0
    ELSE LET e == CHOOSE x \in S : TRUE IN e.size + SumSizes(S \ {e})

HasSegment(p, name) == \E i \in 1..Len(p) : p[i] = name

HasDotSegment(p) == \E i \in 1..Len(p) : SubSeq(p[i], 1, 1) = "."

(* ignore: ["**/.git/**", "**/node_modules/**"] *)
Ignored(p) == HasSegment(p, ".git") \/ HasSegment(p, "node_modules")

(* glob("**/*", {cwd, ignore, nodir: true, absolute: true}): no `dot`    *)
(* option is given, so a path with a segment starting with "." is not    *)
(* matched; nodir drops directories and keeps every other kind of entry. *)
Glob(entries) ==
    {e \in entries : e.type # "dir" /\ ~HasDotSegment(e.path) /\ ~Ignored(e.path)}

PathNotFound(targetPath) == ErrorOf("Path not found: " \o targetPath)

(* calculateBytes without its existence check *)
calculateBytesSyncNoCheck(targetPath, node) ==
    IF node.type = "file" THEN <<"return", node.size>>
    ELSE IF node.type = "dir" THEN <<"glob", 0>>
    ELSE <<"return", 0>>

(* calculateBytes up to its first await: the existence check, statSync, *)
(* the single-file return.  The result is <<"throw", e>>, <<"return",   *)
(* n>> or <<"glob", 0>> (the function goes on to await glob).           *)
calculateBytesSync(targetPath, node) ==
    IF node.type = "absent" THEN <<"throw", PathNotFound(targetPath)>>
    ELSE IF node.type = "file" THEN <<"return", node.size>>
    ELSE IF node.type = "dir" THEN <<"glob", 0>>
    ELSE <<"return", 0>>

(* the loop over the files glob resolved with: totalBytes += statSync(file).size *)
calculateBytesLoop(files) == SumSizes(files)

----------------------------------------------------------------------------
(* fetchCloudflareAnalytics *)

Group(d, r, b) == [date |-> d, requests |-> r, bytes |-> b]

(* One element of httpRequests1dGroups: dimensions.date, sum.requests and *)
(* sum.bytes, each optional (absent or null at any level of the nesting). *)
RunGroupSamples ==
    {Group(Some("2024-01-01"), Some(10), Some(1000)),
     Group(Some("2024-01-02"), Some(5), Some(500)),
     Group(None, Some(7), Some(700))}

GroupSamples ==
    RunGroupSamples
        \cup {Group(Some("2024-01-03"), Some(3), None),
              Group(Some("2024-01-04"), None, Some(40)),
              Group(None, None, None)}

Body(k, e, sh, g) == [kind |-> k, errors |-> e, shape |-> sh, groups |-> g]

(* What response.json() can yield: a rejection (malformed text), null, or  *)
(* an object with an optional errors list and, under                       *)
(* data.viewer.zones[0].httpRequests1dGroups, nothing ("absent"), a value  *)
(* that is not iterable ("scalar") or an array of groups.                  *)
FailingBodies ==
    {Body("malformed", None, "absent", <<>>),
     Body("null", None, "absent", <<>>),
     Body("object", None, "absent", <<>>),
     Body("object", None, "scalar", <<>>),
     Body("object", Some(<<>>), "absent", <<>>),
     Body("object", Some(<<"bad query">>), "absent", <<>>),
     Body("object", Some(<<"quota">>), "array",
          <<Group(Some("2024-01-01"), Some(10), Some(1000))>>)}

GroupBodies(samples) ==
    {Body("object", None, "array", g) : g \in BoundedSeq(samples, MaxGroups)}

(* the answers drawn in a whole run, and the wider set drawn when the *)
(* fetcher is explored on its own                                      *)
RunBodies == FailingBodies \cup GroupBodies(RunGroupSamples)
Bodies == FailingBodies \cup GroupBodies(GroupSamples)

(* Responses in which the upstream did not honour the query's row limit *)
OverLimitBodies ==
    {Body("object", None, "array", [i \in 1..(RowLimit + 1) |-> g]) : g \in GroupSamples}

Responses ==
    {[ok |-> TRUE, status |-> "200", statusText |-> "OK"],
     [ok |-> FALSE, status |-> "500", statusText |-> "Internal Server Error"]}

RECURSIVE JoinQuoted(_)
JoinQuoted(xs) ==
    IF xs = <<>> THEN ""
    ELSE "\"" \o Head(xs) \o "\""
         \o (IF Len(xs) > 1 THEN "," ELSE "") \o JoinQuoted(Tail(xs))

(* JSON.stringify of a list of strings *)
Stringify(xs) == "[" \o JoinQuoted(xs) \o "]"

MissingCredentialsWarning ==
    "Cloudflare analytics enabled but api token or zone id not provided; skipping Cloudflare integration."

RequestFailedWarning(r) ==
    "Cloudflare API request failed: " \o r.status \o " " \o r.statusText

ApiErrorsWarning(errs) == "Cloudflare API returned errors: " \o Stringify(errs)

CatchWarning(e) ==
    "Failed to fetch Cloudflare analytics: "
        \o (IF e.isError THEN e.message ELSE "Unknown Cloudflare error")

(* `x ?? d` *)
Nullish(o, d) == IF IsSome(o) THEN Get(o) ELSE d

IsNumber(v) == v \in Int

(* the try block opened after response.json() instead of before fetch() *)
InTryAfterJson(site) == site \in {"errors", "iterate"}

(* Whether a statement that can throw lies inside the fetcher's try block *)
InTry(site) == site \in {"fetch", "json", "errors", "iterate"}

(* const groups = data?.data?.viewer?.zones?.[0]?.httpRequests1dGroups ?? [] *)
GroupsOf(body) == IF body.shape = "array" THEN body.groups ELSE <<>>

(* The loop over the groups, one definition per value it accumulates.   *)
(* const requests = group?.sum?.requests ?? 0, and bytes likewise        *)
RequestsOf(group) == Nullish(group.requests, 0)
BytesOf(group) == Nullish(group.bytes, 0)

(* if (date): undefined, null and the empty string are falsy *)
HasDate(group) == IsSome(group.date) /\ Get(group.date) # ""

(* totalRequests accumulated over groups[lo..hi]; the range is halved *)
(* rather than walked so that long responses evaluate in shallow depth *)
RECURSIVE TotalRequests(_, _, _)
TotalRequests(groups, lo, hi) ==
    IF lo > hi THEN 0
    ELSE IF lo = hi
    THEN (IF IsNumber(RequestsOf(groups[lo])) THEN RequestsOf(groups[lo]) ELSE 0)
    ELSE LET mid == (lo + hi) \div 2
         IN TotalRequests(groups, lo, mid) + TotalRequests(groups, mid + 1, hi)

(* totalBytes accumulated only for the groups that have a date *)
RECURSIVE TotalBytesDatedOnly(_, _, _)
TotalBytesDatedOnly(groups, lo, hi) ==
    IF lo > hi THEN 0
    ELSE IF lo = hi
    THEN (IF HasDate(groups[lo]) THEN BytesOf(groups[lo]) ELSE 0)
    ELSE LET mid == (lo + hi) \div 2
         IN TotalBytesDatedOnly(groups, lo, mid) + TotalBytesDatedOnly(groups, mid + 1, hi)

(* totalBytes accumulated over groups[lo..hi] *)
RECURSIVE TotalBytes(_, _, _)
TotalBytes(groups, lo, hi) ==
    IF lo > hi THEN 0
    ELSE IF lo = hi
    THEN (IF IsNumber(BytesOf(groups[lo])) THEN BytesOf(groups[lo]) ELSE 0)
    ELSE LET mid == (lo + hi) \div 2
         IN TotalBytes(groups, lo, mid) + TotalBytes(groups, mid + 1, hi)

DailyEntry(group) ==
    [date |-> Get(group.date), requests |-> RequestsOf(group), bytes |-> BytesOf(group)]

(* an entry pushed once for its requests and once more for its bytes *)
DailyPushedTwice(groups) ==
    LET dated == SelectSeq(groups, HasDate)
    IN [k \in 1..(2 * Len(dated)) |-> DailyEntry(dated[(k + 1) \div 2])]

(* daily after the loop: one entry pushed per group that has a date *)
Daily(groups) ==
    LET dated == SelectSeq(groups, HasDate)
    IN [k \in 1..Len(dated) |-> DailyEntry(dated[k])]

Normalize(groups) ==
    [totalRequests |-> TotalRequests(groups, 1, Len(groups)),
     totalBytes |-> TotalBytes(groups, 1, Len(groups)),
     daily |-> Daily(groups)]

AnalyticsResult(zoneId, rng, groups) ==
    LET n == Normalize(groups)
    IN [zone_id |-> zoneId,
        time_range |-> rng,
        totals |-> [requests |-> n.totalRequests, bytes |-> n.totalBytes],
        daily |-> n.daily]

ResolveRange(c) ==
    LET defaultUntil == Slice0(NowIso, SliceLen)
        defaultSince == Slice0(ThirtyDaysBefore(NowIso), SliceLen)
    IN [since |-> Slice0(OrElse(c.since, defaultSince), SliceLen),
        until |-> Slice0(OrElse(c.until, defaultUntil), SliceLen)]

----------------------------------------------------------------------------
(* buildCarbonTxt *)

RECURSIVE Join(_, _)
Join(lines, sep) ==
    IF lines = <<>> THEN ""
    ELSE IF Len(lines) = 1 THEN Head(lines)
    ELSE Head(lines) \o sep \o Join(Tail(lines), sep)

Quoted(s) == "\"" \o s \o "\""

BuildLines(b, green, co2grams) ==
    <<"# Generated by CO2.js GitHub Action",
      "version = " \o Quoted("0.3"),
      "last_updated = " \o Quoted(NowIso),
      "",
      "[build]",
      "date = " \o Quoted(NowIso),
      "total_bytes = " \o ToString(b),
      "green_hosting = " \o BoolStr(green),
      "estimated_co2_grams = " \o NumStr(co2grams)>>

CloudflareLines(a, green) ==
    <<"",
      "[cloudflare]",
      "zone_id = " \o Quoted(a.zone_id),
      "since = " \o Quoted(a.time_range.since),
      "until = " \o Quoted(a.time_range.until),
      "requests = " \o ToString(a.totals.requests),
      "bytes = " \o ToString(a.totals.bytes),
      "estimated_co2_grams = " \o NumStr(perByte(a.totals.bytes, green))>>

DayLines(day, green) ==
    <<"",
      "[[cloudflare.daily]]",
      "date = " \o Quoted(day.date),
      "requests = " \o ToString(day.requests),
      "bytes = " \o ToString(day.bytes),
      "estimated_co2_grams = " \o NumStr(perByte(day.bytes, green))>>

(* the loop over the days running from the last day to the first *)
RECURSIVE DailyLinesReversed(_, _, _)
DailyLinesReversed(daily, i, green) ==
    IF i > Len(daily) THEN <<>>
    ELSE DailyLinesReversed(daily, i + 1, green) \o DayLines(daily[i], green)

RECURSIVE DailyLines(_, _, _)
DailyLines(daily, i, green) ==
    IF i > Len(daily) THEN <<>>
    ELSE DayLines(daily[i], green) \o DailyLines(daily, i + 1, green)

(* the [cloudflare] header emitted whether or not analytics are present *)
CarbonLinesEmptySection(b, green, co2grams, cloudflareAnalytics) ==
    BuildLines(b, green, co2grams)
        \o (IF IsSome(cloudflareAnalytics)
            THEN CloudflareLines(Get(cloudflareAnalytics), green)
                 \o DailyLines(Get(cloudflareAnalytics).daily, 1, green)
            ELSE <<"", "[cloudflare]">>)

CarbonLines(b, green, co2grams, cloudflareAnalytics) ==
    BuildLines(b, green, co2grams)
        \o (IF IsSome(cloudflareAnalytics)
            THEN CloudflareLines(Get(cloudflareAnalytics), green)
                 \o DailyLines(Get(cloudflareAnalytics).daily, 1, green)
            ELSE <<>>)

buildCarbonTxt(b, green, co2grams, cloudflareAnalytics) ==
    Join(CarbonLines(b, green, co2grams, cloudflareAnalytics), "\n")

----------------------------------------------------------------------------
(* run *)

ConfigOf(in) ==
    [inputPath |-> OrElse(in.path, "."),
     greenHosting |-> (in.greenHosting = "true"),
     destination |-> OrElse(in.destination, "."),
     cloudflare |->
        [apiToken |-> in.cloudflareApiToken,
         zoneId |-> in.cloudflareZoneId,
         since |-> in.cloudflareSince,
         until |-> in.cloudflareUntil,
         enabled |-> (in.cloudflareEnabled = "true")]]

(* path.join(dir, file) *)
PathJoin(dir, file) == IF dir = "." THEN file ELSE dir \o "/" \o file

(* the report composed and written before the analytics are fetched *)
AfterSkippingFetch(stage) ==
    CASE stage = "config" -> "bytes"
      [] stage = "bytes" -> "estimate"
      [] stage = "estimate" -> "compose"
      [] stage = "fetch" -> "compose"
      [] stage = "compose" -> "write"
      [] stage = "write" -> "done"

(* The statement order of run(): the stage that follows each stage *)
After(stage) ==
    CASE stage = "config" -> "bytes"
      [] stage = "bytes" -> "estimate"
      [] stage = "estimate" -> "fetch"
      [] stage = "fetch" -> "compose"
      [] stage = "compose" -> "write"
      [] stage = "write" -> "done"

Begin(stage) == stage \o ":begin"
End(stage) == stage \o ":end"

envV == <<inputs, fsInput>>
calcV == <<bytes, estimatedCO2, emissionsOutput>>
fetchV == <<range, httpRequests, upstream, analytics, fetchReturned, warnings>>
outV == <<carbonTxt, reportFile, dirCreated, destExists>>

InitCommon ==
    /\ bytes = None
    /\ estimatedCO2 = None
    /\ emissionsOutput = None
    /\ range = None
    /\ httpRequests = 0
    /\ upstream = None
    /\ analytics = None
    /\ fetchReturned = FALSE
    /\ warnings = <<>>
    /\ carbonTxt = None
    /\ reportFile = None
    /\ dirCreated = FALSE
    /\ thrown = None
    /\ failures = <<>>
    /\ events = <<>>

Init ==
    /\ pc = "config"
    /\ inputs \in Inputs
    /\ fsInput \in FsNodes
    /\ destExists = (inputs.destination = "")
    /\ cfg = None
    /\ InitCommon

(* a statement of run()'s try block throws e *)
Raise(e) ==
    /\ pc' = "catch"
    /\ thrown' = Some(e)

ReadConfig ==
    /\ pc = "config"
    /\ cfg' = Some(ConfigOf(inputs))
    /\ events' = events \o <<Begin("config"), End("config")>>
    /\ pc' = After("config")
    /\ UNCHANGED <<envV, calcV, fetchV, outV, thrown, failures>>

CalculateBytes ==
    /\ pc = "bytes"
    /\ LET r == calculateBytesSync(Get(cfg).inputPath, fsInput)
       IN \/ /\ r[1] = "throw"
             /\ Raise(r[2])
             /\ events' = Append(events, Begin("bytes"))
             /\ UNCHANGED bytes
          \/ /\ r[1] # "throw"
             /\ \E e \in FsThrown : Raise(e)
             /\ events' = Append(events, Begin("bytes"))
             /\ UNCHANGED bytes
          \/ /\ r[1] = "return"
             /\ bytes' = Some(r[2])
             /\ events' = events \o <<Begin("bytes"), End("bytes")>>
             /\ pc' = After("bytes")
             /\ UNCHANGED thrown
          \/ /\ r[1] = "glob"
             /\ pc' = "glob"
             /\ events' = Append(events, Begin("bytes"))
             /\ UNCHANGED <<bytes, thrown>>
    /\ UNCHANGED <<envV, cfg, estimatedCO2, emissionsOutput, fetchV, outV, failures>>

GlobSettle ==
    /\ pc = "glob"
    /\ \/ /\ \E e \in LibThrown \cup FsThrown : Raise(e)
          /\ UNCHANGED <<bytes, events>>
       \/ /\ bytes' = Some(calculateBytesLoop(Glob(fsInput.entries)))
          /\ events' = Append(events, End("bytes"))
          /\ pc' = After("bytes")
          /\ UNCHANGED thrown
    /\ UNCHANGED <<envV, cfg, estimatedCO2, emissionsOutput, fetchV, outV, failures>>

Estimate ==
    /\ pc = "estimate"
    /\ \/ /\ \E e \in LibThrown : Raise(e)
          /\ events' = Append(events, Begin("estimate"))
          /\ UNCHANGED <<estimatedCO2, emissionsOutput>>
       \/ /\ estimatedCO2' = Some(perByte(Get(bytes), Get(cfg).greenHosting))
          /\ emissionsOutput' = estimatedCO2'
          /\ events' = events \o <<Begin("estimate"), End("estimate")>>
          /\ pc' = After("estimate")
          /\ UNCHANGED thrown
    /\ UNCHANGED <<envV, cfg, bytes, fetchV, outV, failures>>

(* the fetcher returns result to run(), after the warnings ws *)
FetchReturn(result, ws) ==
    /\ analytics' = result
    /\ warnings' = warnings \o ws
    /\ fetchReturned' = TRUE
    /\ pc' = After("fetch")
    /\ UNCHANGED thrown

(* the catch block issuing the request again instead of returning null *)
FetcherThrowRetry(site, e) ==
    /\ pc' = "fetch"
    /\ warnings' = Append(warnings, CatchWarning(e))
    /\ UNCHANGED <<analytics, fetchReturned, thrown>>

(* a statement of the fetcher throws e: its own catch turns it into a  *)
(* warning and null when the statement is inside the try block, and it *)
(* reaches run() otherwise                                             *)
FetcherThrow(site, e) ==
    IF InTry(site)
    THEN FetchReturn(None, <<CatchWarning(e)>>)
    ELSE /\ Raise(e)
         /\ UNCHANGED <<analytics, warnings, fetchReturned>>

FetchStart ==
    /\ pc = "fetch"
    /\ LET c == Get(cfg).cloudflare
       IN IF ~c.enabled
          THEN /\ FetchReturn(None, <<>>)
               /\ events' = events \o <<Begin("fetch"), End("fetch")>>
               /\ UNCHANGED <<range, httpRequests>>
          ELSE IF c.apiToken = "" \/ c.zoneId = ""
          THEN /\ FetchReturn(None, <<MissingCredentialsWarning>>)
               /\ events' = events \o <<Begin("fetch"), End("fetch")>>
               /\ UNCHANGED <<range, httpRequests>>
          ELSE /\ range' = Some(ResolveRange(c))
               /\ httpRequests' = httpRequests + 1
               /\ pc' = "awaitFetch"
               /\ events' = Append(events, Begin("fetch"))
               /\ UNCHANGED <<analytics, warnings, fetchReturned, thrown>>
    /\ UNCHANGED <<envV, cfg, calcV, upstream, outV, failures>>

FetchSettle ==
    /\ pc = "awaitFetch"
    /\ \/ /\ \E e \in TransportThrown : FetcherThrow("fetch", e)
          /\ events' = IF pc' = "catch" THEN events ELSE Append(events, End("fetch"))
       \/ \E r \in Responses :
             IF ~r.ok
             THEN /\ FetchReturn(None, <<RequestFailedWarning(r)>>)
                  /\ events' = Append(events, End("fetch"))
             ELSE /\ pc' = "awaitJson"
                  /\ UNCHANGED <<analytics, warnings, fetchReturned, thrown, events>>
    /\ UNCHANGED <<envV, cfg, calcV, range, httpRequests, upstream, outV, failures>>

JsonSettle(bodies) ==
    /\ pc = "awaitJson"
    /\ \E body \in bodies :
          /\ upstream' = Some(body)
          /\ IF body.kind = "malformed"
             THEN FetcherThrow("json", ErrorOf("Unexpected token < in JSON"))
             ELSE IF body.kind = "null"
             THEN FetcherThrow("errors", ErrorOf("Cannot read properties of null"))
             ELSE IF IsSome(body.errors) /\ Len(Get(body.errors)) > 0
             THEN FetchReturn(None, <<ApiErrorsWarning(Get(body.errors))>>)
             ELSE IF body.shape = "scalar"
             THEN FetcherThrow("iterate", ErrorOf("groups is not iterable"))
             ELSE FetchReturn(
                    Some(AnalyticsResult(Get(cfg).cloudflare.zoneId, Get(range),
                                         GroupsOf(body))),
                    <<>>)
    /\ events' = IF pc' = "catch" THEN events ELSE Append(events, End("fetch"))
    /\ UNCHANGED <<envV, cfg, calcV, range, httpRequests, outV, failures>>

Compose ==
    /\ pc = "compose"
    /\ \/ /\ IsSome(analytics)
          /\ \E e \in LibThrown : Raise(e)
          /\ events' = Append(events, Begin("compose"))
          /\ UNCHANGED carbonTxt
       \/ /\ carbonTxt' = Some(buildCarbonTxt(Get(bytes), Get(cfg).greenHosting,
                                              Get(estimatedCO2), analytics))
          /\ events' = events \o <<Begin("compose"), End("compose")>>
          /\ pc' = After("compose")
          /\ UNCHANGED thrown
    /\ UNCHANGED <<envV, cfg, calcV, fetchV, reportFile, dirCreated, destExists, failures>>

EnsureDestination ==
    /\ pc = "write"
    /\ events' = Append(events, Begin("write"))
    /\ IF destExists
       THEN /\ pc' = "writeFile"
            /\ UNCHANGED <<destExists, dirCreated, thrown>>
       ELSE \/ /\ destExists' = TRUE
               /\ dirCreated' = TRUE
               /\ pc' = "writeFile"
               /\ UNCHANGED thrown
            \/ /\ \E e \in FsThrown : Raise(e)
               /\ UNCHANGED <<destExists, dirCreated>>
    /\ UNCHANGED <<envV, cfg, calcV, fetchV, carbonTxt, reportFile, failures>>

WriteReport ==
    /\ pc = "writeFile"
    /\ \/ /\ reportFile' = Some([path |-> PathJoin(Get(cfg).destination, "report.txt"),
                                 content |-> Get(carbonTxt)])
          /\ events' = Append(events, End("write"))
          /\ pc' = After("write")
          /\ UNCHANGED thrown
       \/ /\ \E e \in FsThrown : Raise(e)
          /\ UNCHANGED <<reportFile, events>>
    /\ UNCHANGED <<envV, cfg, calcV, fetchV, carbonTxt, dirCreated, destExists, failures>>

(* catch (error) { if (error instanceof Error) core.setFailed(error.message) } *)
Catch ==
    /\ pc = "catch"
    /\ failures' = IF Get(thrown).isError
                   THEN Append(failures, Get(thrown).message)
                   ELSE failures
    /\ pc' = "done"
    /\ UNCHANGED <<envV, cfg, calcV, fetchV, outV, thrown, events>>

Next ==
    \/ ReadConfig
    \/ CalculateBytes
    \/ GlobSettle
    \/ Estimate
    \/ FetchStart
    \/ FetchSettle
    \/ JsonSettle(RunBodies)
    \/ Compose
    \/ EnsureDestination
    \/ WriteReport
    \/ Catch

Spec == Init /\ [][Next]_vars

(* The fetcher on its own, called with every configuration, the upstream *)
(* free to answer with more rows than the query's limit                  *)
InitFetch ==
    /\ pc = "fetch"
    /\ inputs \in {in \in Inputs : in.path = "" /\ in.destination = ""}
    /\ fsInput = FsNode("file", 350, {})
    /\ destExists = TRUE
    /\ cfg = Some(ConfigOf(inputs))
    /\ InitCommon

JsonSettleOverLimit == JsonSettle(OverLimitBodies)

NextFetch ==
    \/ FetchStart
    \/ FetchSettle
    \/ JsonSettle(Bodies)
    \/ JsonSettleOverLimit

SpecFetch == InitFetch /\ [][NextFetch]_vars

----------------------------------------------------------------------------
(* Properties *)

LastEvent == IF events = <<>> THEN "" ELSE events[Len(events)]

Occurrences(s, sub) ==
    {i \in 1..(Len(s) - Len(sub) + 1) : SubSeq(s, i, i + Len(sub) - 1) = sub}

StartsAt(s, i, text) == SubSeq(s, i, i + Len(text) - 1) = text

(* C1: a run in which a stage throws, whatever the value thrown, ends with *)
(* exactly one failure message and no report.txt.                          *)
C1_FailedRunReportsOnce ==
    (pc = "done" /\ IsSome(thrown)) => (Len(failures) = 1 /\ reportFile = None)

(* C2: when the input path does not exist, calculateBytes yields no byte  *)
(* count, the run goes no further than its catch, it fails with the       *)
(* path-not-found message, writes no report and creates no directory.     *)
C2_MissingPathFailsRun ==
    fsInput.type = "absent" =>
        /\ bytes = None
        /\ reportFile = None
        /\ ~dirCreated
        /\ pc \in {"config", "bytes", "catch", "done"}
        /\ pc \in {"catch", "done"} =>
              Get(thrown) = ErrorOf("Path not found: " \o Get(cfg).inputPath)
        /\ pc = "done" => failures = <<"Path not found: " \o Get(cfg).inputPath>>

C2_Witness ==
    /\ pc = "done"
    /\ fsInput.type = "absent"
    /\ failures = <<"Path not found: dist">>
    /\ reportFile = None

SuccessExit ==
    /\ Get(cfg).cloudflare.enabled
    /\ Get(cfg).cloudflare.apiToken # ""
    /\ Get(cfg).cloudflare.zoneId # ""
    /\ IsSome(upstream)
    /\ Get(upstream).kind = "object"
    /\ ~(IsSome(Get(upstream).errors) /\ Get(upstream).errors # Some(<<>>))
    /\ Get(upstream).shape # "scalar"

(* C3: no value thrown inside the fetcher reaches run(): whenever run()   *)
(* has caught something, the stage that threw is not the fetch; and the   *)
(* fetcher returns a result only on its success exit, null on every other *)
(* exit.                                                                   *)
C3_FetcherNeverThrows ==
    /\ IsSome(thrown) => LastEvent # Begin("fetch")
    /\ pc \in {"awaitFetch", "awaitJson"} => ~fetchReturned
    /\ fetchReturned =>
          IF SuccessExit
          THEN /\ IsSome(analytics)
               /\ Get(analytics).zone_id = Get(cfg).cloudflare.zoneId
               /\ Get(analytics).time_range = Get(range)
          ELSE analytics = None

C3_Witness ==
    /\ fetchReturned
    /\ analytics = None
    /\ IsSome(upstream)
    /\ Get(upstream).kind \in {"null", "malformed"}
    /\ thrown = None

NoAnalyticsReport(doc) ==
    /\ Contains(doc, "\n[build]\n")
    /\ ~Contains(doc, "[cloudflare]")
    /\ ~Contains(doc, "[[cloudflare.daily]]")

(* C4 as stated: every run whose input path exists and whose fetcher     *)
(* yields no analytics writes report.txt, with [build] and without       *)
(* [cloudflare].                                                         *)
C4_DegradedRunAlwaysWrites ==
    (pc = "done" /\ fsInput.type # "absent" /\ fetchReturned /\ analytics = None) =>
        (IsSome(reportFile) /\ NoAnalyticsReport(Get(reportFile).content))

(* C4 amended: after the fetcher has yielded no analytics, the only      *)
(* stage that can still fail the run is the write stage (creating the    *)
(* destination directory, writing the file); in every other such run     *)
(* report.txt is written, has the [build] section and nowhere contains   *)
(* "[cloudflare]".                                                       *)
C4_DegradedRunWritesUnlessWriteFails ==
    (fetchReturned /\ analytics = None) =>
        /\ IsSome(thrown) => LastEvent = Begin("write")
        /\ (pc = "done" /\ thrown = None) =>
              /\ IsSome(reportFile)
              /\ NoAnalyticsReport(Get(reportFile).content)
              /\ Get(reportFile).path = PathJoin(Get(cfg).destination, "report.txt")

C4_Witness ==
    /\ pc = "done"
    /\ fetchReturned
    /\ analytics = None
    /\ IsSome(upstream)
    /\ Get(upstream).errors = Some(<<"bad query">>)
    /\ IsSome(reportFile)
    /\ warnings = <<"Cloudflare API returned errors: [\"bad query\"]">>

RECURSIVE SeqSum(_)
SeqSum(xs) ==
    IF Len(xs) = 0 THEN 0
    ELSE IF Len(xs) = 1 THEN xs[1]
    ELSE LET h == Len(xs) \div 2
         IN SeqSum(SubSeq(xs, 1, h)) + SeqSum(SubSeq(xs, h + 1, Len(xs)))

ValueOr0(o) == IF o = <<>> THEN 0 ELSE o[1]

(* C5: on the success exit the totals are the sums over all upstream     *)
(* groups, a missing value counting 0, and daily is the subsequence of   *)
(* the groups that have a date, in upstream order, each with its own     *)
(* requests and bytes.                                                   *)
C5_TotalsAndDaily ==
    (fetchReturned /\ IsSome(analytics)) =>
        LET groups == GroupsOf(Get(upstream))
            a == Get(analytics)
            dated == {i \in 1..Len(groups) : groups[i].date # <<>>}
        IN /\ a.totals.requests =
                 SeqSum([i \in 1..Len(groups) |-> ValueOr0(groups[i].requests)])
           /\ a.totals.bytes =
                 SeqSum([i \in 1..Len(groups) |-> ValueOr0(groups[i].bytes)])
           /\ Len(a.daily) = Cardinality(dated)
           /\ \A i \in dated :
                 LET k == Cardinality({j \in dated : j <= i})
                 IN /\ a.daily[k].date = groups[i].date[1]
                    /\ a.daily[k].requests = ValueOr0(groups[i].requests)
                    /\ a.daily[k].bytes = ValueOr0(groups[i].bytes)

C5_Witness ==
    /\ fetchReturned
    /\ IsSome(analytics)
    /\ Get(upstream).groups =
          <<Group(Some("2024-01-01"), Some(10), Some(1000)),
            Group(None, Some(7), Some(700))>>
    /\ Get(analytics).totals = [requests |-> 17, bytes |-> 1700]
    /\ Len(Get(analytics).daily) = 1

SectionHeader == "\n[cloudflare]\n"
DailyHeader == "\n[[cloudflare.daily]]\n"

DailyBlock(day) ==
    DailyHeader \o "date = \"" \o day.date \o "\"\nrequests = " \o ToString(day.requests)
        \o "\nbytes = " \o ToString(day.bytes) \o "\n"

(* C6: the document composed from analytics with N daily entries has     *)
(* exactly one [cloudflare] section, then exactly N [[cloudflare.daily]] *)
(* blocks, the i-th with the date, requests and bytes of the i-th entry. *)
C6_OneSectionThenDailyBlocks ==
    (pc = After("compose") /\ IsSome(carbonTxt) /\ IsSome(analytics)) =>
        LET doc == Get(carbonTxt)
            daily == Get(analytics).daily
            sections == Occurrences(doc, SectionHeader)
            blocks == Occurrences(doc, DailyHeader)
        IN /\ Cardinality(sections) = 1
           /\ Cardinality(Occurrences(doc, "[cloudflare]")) = 1
           /\ Cardinality(blocks) = Len(daily)
           /\ \A p \in blocks : \A q \in sections : q < p
           /\ \A p \in blocks :
                 StartsAt(doc, p, DailyBlock(daily[Cardinality({q \in blocks : q <= p})]))

C6_Witness ==
    /\ pc = After("compose")
    /\ IsSome(carbonTxt)
    /\ IsSome(analytics)
    /\ Len(Get(analytics).daily) = 2
    /\ Get(analytics).daily[1].date = "2024-01-01"
    /\ Get(analytics).daily[2].date = "2024-01-02"
    /\ Get(analytics).totals.bytes = 1500
    /\ Cardinality(Occurrences(Get(carbonTxt), DailyHeader)) = 2

(* the entries the byte count is said to cover: the regular files with *)
(* no .git or node_modules segment in their path                       *)
CountedFiles(entries) ==
    {e \in entries :
        /\ e.type = "file"
        /\ \A i \in 1..Len(e.path) : e.path[i] \notin {".git", "node_modules"}}

(* C7: the byte count of a directory is the sum of the sizes of the      *)
(* regular files under it outside .git and node_modules, nothing else    *)
(* counting; that of a single regular file is the file's size.           *)
C7_BytesAreSumOfRegularFiles ==
    IsSome(bytes) =>
        Get(bytes) = (IF fsInput.type = "file" THEN fsInput.size
                      ELSE SumSizes(CountedFiles(fsInput.entries)))

(* C8 as stated: a successful fetch returns at most 100 daily entries, *)
(* whatever the upstream response holds.                               *)
C8_DailyWithinRowLimit ==
    (fetchReturned /\ IsSome(analytics)) => Len(Get(analytics).daily) <= RowLimit

(* C8 amended: a successful fetch returns at most as many daily entries *)
(* as the upstream response has groups, hence at most 100 when the      *)
(* upstream honours the query's row limit; the fetcher does not         *)
(* truncate.                                                            *)
C8_DailyWithinUpstreamRows ==
    (fetchReturned /\ IsSome(analytics)) =>
        /\ Len(Get(analytics).daily) <= Len(GroupsOf(Get(upstream)))
        /\ Len(GroupsOf(Get(upstream))) <= RowLimit =>
              Len(Get(analytics).daily) <= RowLimit

C8_Witness ==
    /\ fetchReturned
    /\ IsSome(analytics)
    /\ Len(GroupsOf(Get(upstream))) = RowLimit + 1
    /\ Len(Get(analytics).daily) = RowLimit + 1

(* C9: the fetcher issues at most one HTTP request; none and no warning  *)
(* when disabled; none and exactly one warning when enabled without      *)
(* token or zone id; exactly one request and one warning when the        *)
(* request fails, and no warning on success.                             *)
C9_SinglePassNoRetry ==
    /\ httpRequests <= 1
    /\ Len(warnings) <= 1
    /\ fetchReturned =>
          LET c == Get(cfg).cloudflare
          IN IF ~c.enabled
             THEN httpRequests = 0 /\ warnings = <<>>
             ELSE IF c.apiToken = "" \/ c.zoneId = ""
             THEN httpRequests = 0 /\ warnings = <<MissingCredentialsWarning>>
             ELSE /\ httpRequests = 1
                  /\ Len(warnings) = (IF analytics = None THEN 1 ELSE 0)

C9_Witness ==
    /\ pc = "done"
    /\ fetchReturned
    /\ httpRequests = 1
    /\ upstream = None
    /\ analytics = None
    /\ Len(warnings) = 1

StageEvents ==
    <<Begin("config"), End("config"), Begin("bytes"), End("bytes"),
      Begin("estimate"), End("estimate"), Begin("fetch"), End("fetch"),
      Begin("compose"), End("compose"), Begin("write"), End("write")>>

====
